---- MODULE Spec2Model ----
(***************************************************************************)
(* simpleperf report-sample (cmd_report_sample.cpp): the sample resolver   *)
(* (ProcessSampleRecord), the protobuf report writer (Run and the          *)
(* Print*InProtobuf methods) and the report dumper/validator               *)
(* (DumpProtobufReport).                                                   *)
(***************************************************************************)
EXTENDS Integers, Sequences, FiniteSets, TLC

VARIABLES
  show_callchain,                 \* show_callchain_
  use_protobuf,                   \* use_protobuf_
  remove_unknown_kernel_symbols,  \* remove_unknown_kernel_symbols_
  kernel_symbols_available,       \* kernel_symbols_available_
  show_art_frames,                \* show_art_frames_
  pc,                             \* position of the command in Run / DumpProtobufReport
  sample_count,                   \* sample_count_
  lost_count,                     \* lost_count_
  dso_dump_id,                    \* Dso::dump_id_ of every dso (NoId when not set)
  symbol_dump_id,                 \* Symbol::dump_id_ of every symbol (NoId when not set)
  threads,                        \* tids of the ThreadEntry objects of thread_tree_
  nevents,                        \* number of records ReadDataSection has delivered
  emitted,                        \* history: the CallEntry behind every call-chain entry
                                  \* of the sample records written so far, in order
  report,                         \* the report file: header and framed records
  text_out,                       \* lines printed to report_fp_ in text mode / by the dumper
  sample_in,                      \* ProcessSampleRecord alone: the sample record given to it
  cur_ips,                        \* ProcessSampleRecord alone: ips, the chain it resolves
  cur_kernel_ip_count,            \* ProcessSampleRecord alone: its kernel_ip_count
  cur_entries,                    \* ProcessSampleRecord alone: the entries built
  dump_pos,                       \* number of frames of the report the dumper has consumed
  files,                          \* DumpProtobufReport: files[file_id] = symbol count
  max_symbol_id_map,              \* DumpProtobufReport: file_id -> max symbol id requested
  max_message_size,               \* DumpProtobufReport: current total-bytes limit
  dump_sample_count,              \* DumpProtobufReport: static size_t sample_count
  dump_result,                    \* DumpProtobufReport: "none", "ok" or the error it logged
  dump_runs,                      \* calls of DumpProtobufReport in this process so far
  result                          \* what the report run returned: "none", "true", "false"

vars == <<show_callchain, use_protobuf, remove_unknown_kernel_symbols,
          kernel_symbols_available, show_art_frames, pc, sample_count, lost_count,
          dso_dump_id, symbol_dump_id, threads, nevents, emitted, report, text_out,
          sample_in, cur_ips, cur_kernel_ip_count, cur_entries, dump_pos, files,
          max_symbol_id_map, max_message_size, dump_sample_count, dump_result,
          dump_runs, result>>

flags == <<show_callchain, use_protobuf, remove_unknown_kernel_symbols,
           kernel_symbols_available, show_art_frames>>
encoder_vars == <<sample_count, lost_count, dso_dump_id, symbol_dump_id, threads, nevents,
                  emitted>>
sample_vars == <<sample_in, cur_ips, cur_kernel_ip_count, cur_entries>>
dump_vars == <<dump_pos, files, max_symbol_id_map, max_message_size, dump_sample_count,
               dump_result, dump_runs>>

(***************************************************************************)
(* Bounds of the model.                                                    *)
(***************************************************************************)
MaxChain == 6        \* longest call chain given to the resolver alone
MaxKernelIps == 2    \* longest kernel prefix of such a chain
MaxEvents == 2       \* records delivered by ReadDataSection in one run
MaxRunChain == 2     \* longest user part of a sample's chain in a whole run
MaxLost == 2         \* largest `lost` field of a lost record
MaxStream == 3       \* frames of a dumped report before its end
MaxDumpEntries == 2  \* call-chain entries in all samples of a dumped report
MaxFileId == 1       \* largest file id in a dumped report
MaxSymbolId == 1     \* largest symbol id in a dumped report
MaxSymbolCount == 1  \* most symbols a file record of a dumped report declares
MaxDumps == 2        \* calls of DumpProtobufReport in one process

NoId == -1           \* a dso or symbol without dump id (GetDumpId returns false)

Min(a, b) == IF a < b THEN a ELSE b
Max(a, b) == IF a > b THEN a ELSE b
Last(s) == s[Len(s)]
Front(s) == SubSeq(s, 1, Len(s) - 1)
Range(s) == {s[i] : i \in 1..Len(s)}

RECURSIVE SeqsUpTo(_, _)
SeqsUpTo(S, n) ==
  IF n = 0 THEN {<<>>}
  ELSE LET shorter == SeqsUpTo(S, n - 1)
       IN shorter \cup {Append(s, x) : s \in {t \in shorter : Len(t) = n - 1}, x \in S}

(***************************************************************************)
(* The thread tree: dsos, symbols and maps.  Paths are sequences of path   *)
(* components ("/system/lib64/libart.so" is <<"system","lib64",            *)
(* "libart.so">>).                                                         *)
(***************************************************************************)
Dsos == {"kernel", "libfoo", "libbar", "libc", "libart", "dex", "unknown"}

DsoPath(dso) ==
  CASE dso = "kernel"  -> <<"[kernel.kallsyms]">>
    [] dso = "libfoo"  -> <<"data", "app", "libfoo.so">>
    [] dso = "libbar"  -> <<"data", "app", "libbar.so">>
    [] dso = "libc"    -> <<"system", "lib64", "libc.so">>
    [] dso = "libart"  -> <<"system", "lib64", "libart.so">>
    [] dso = "dex"     -> <<"data", "app", "base.vdex">>
    [] dso = "unknown" -> <<"unknown">>

DsoType(dso) ==
  CASE dso = "kernel" -> "DSO_KERNEL"
    [] dso = "dex"    -> "DSO_DEX_FILE"
    [] OTHER          -> "DSO_ELF_FILE"

\* Dso::FileName(): the last component of the path.
FileName(dso) == Last(DsoPath(dso))

\* android::base::EndsWith(path, "/libart.so") on a path of components: the
\* last component is libart.so and a separator precedes it.
EndsWithLibart(path) == Len(path) >= 2 /\ Last(path) = "libart.so"

\* thread_tree_.UnknownSymbol(): the one symbol standing for "not found".
UnknownSymbol == [dso |-> "unknown", name |-> "unknown"]

\* The symbols of each dso, with the file addresses they cover.
SymbolTable ==
  [d \in Dsos |->
     CASE d = "kernel" -> <<[name |-> "sys_read", lo |-> 0, hi |-> 3]>>
       [] d = "libfoo" -> <<[name |-> "f", lo |-> 0, hi |-> 3],
                            [name |-> "g", lo |-> 4, hi |-> 7]>>
       [] d = "libc"   -> <<[name |-> "__libc_init", lo |-> 0, hi |-> 3],
                            [name |-> "__start_thread", lo |-> 4, hi |-> 7],
                            [name |-> "malloc", lo |-> 8, hi |-> 11]>>
       [] d = "libart" -> <<[name |-> "ExecuteSwitchImpl", lo |-> 0, hi |-> 3]>>
       [] d = "dex"    -> <<[name |-> "Main.run", lo |-> 0, hi |-> 3]>>
       [] OTHER        -> <<>>]

\* Dso::GetSymbols() as identities.
GetSymbols(dso) ==
  [i \in 1..Len(SymbolTable[dso]) |-> [dso |-> dso, name |-> SymbolTable[dso][i].name]]

Symbols == UNION {Range(GetSymbols(d)) : d \in Dsos}

\* The maps of the (single) process and of the kernel: start address, dso.
MapLen == 16
UserMaps == <<[start |-> 16, dso |-> "libfoo"], [start |-> 32, dso |-> "libbar"],
              [start |-> 48, dso |-> "libc"], [start |-> 64, dso |-> "libart"],
              [start |-> 80, dso |-> "dex"]>>
KernelMaps == <<[start |-> 128, dso |-> "kernel"]>>

\* ThreadTree::FindMap: the map holding ip, or the unknown map.
FindMap(ip, in_kernel) ==
  LET maps == IF in_kernel THEN KernelMaps ELSE UserMaps
      hit == {i \in 1..Len(maps) : maps[i].start <= ip /\ ip < maps[i].start + MapLen}
  IN IF hit = {} THEN [start |-> 0, dso |-> "unknown"]
     ELSE maps[CHOOSE i \in hit : TRUE]

\* ThreadTree::IsUnknownDso
IsUnknownDso(dso) == dso = "unknown"

\* ThreadTree::FindSymbol: the symbol covering ip in the map's dso, the address
\* in the file, and the dso that holds the symbol.
FindSymbol(map, ip) ==
  LET vaddr == ip - map.start
      tab == SymbolTable[map.dso]
      hit == {i \in 1..Len(tab) : tab[i].lo <= vaddr /\ vaddr <= tab[i].hi}
  IN IF hit = {}
     THEN [symbol |-> UnknownSymbol, vaddr_in_file |-> vaddr, dso |-> "unknown"]
     ELSE [symbol |-> [dso |-> map.dso, name |-> tab[CHOOSE i \in hit : TRUE].name],
           vaddr_in_file |-> vaddr, dso |-> map.dso]

(***************************************************************************)
(* ProcessSampleRecord: from the raw chain to the entries.                 *)
(***************************************************************************)
\* GetCallEntry: [ok, entry].
GetCallEntry(in_kernel, ip, omit_unknown_dso) ==
  LET map == FindMap(ip, in_kernel)
      found == FindSymbol(map, ip)
  IN IF omit_unknown_dso /\ IsUnknownDso(map.dso)
     THEN [ok |-> FALSE, entry |-> [dso |-> "unknown", symbol |-> UnknownSymbol, vaddr_in_file |-> 0]]
     ELSE [ok |-> TRUE,
           entry |-> [dso |-> IF found.symbol = UnknownSymbol THEN map.dso ELSE found.dso,
                      symbol |-> found.symbol,
                      vaddr_in_file |-> found.vaddr_in_file]]

is_entry_for_interpreter(entry) == EndsWithLibart(DsoPath(entry.dso))

IsDexEntry(entry) == DsoType(entry.dso) = "DSO_DEX_FILE"

\* Mutant of PopInterpreterEntries: an if instead of the while, so that one
\* entry at most is popped.
PopInterpreterEntries_Once(entries) ==
  IF entries # <<>> /\ is_entry_for_interpreter(Last(entries))
  THEN Front(entries)
  ELSE entries

\* while (!entries.empty() && is_entry_for_interpreter(entries.back())) entries.pop_back();
RECURSIVE PopInterpreterEntries(_)
PopInterpreterEntries(entries) ==
  IF entries # <<>> /\ is_entry_for_interpreter(Last(entries))
  THEN PopInterpreterEntries(Front(entries))
  ELSE entries

\* Mutant of NoteFrame: the test of show_art_frames_ is lost.
NoteFrame_AlwaysCollapse(art, entry, entries, near) ==
  IF IsDexEntry(entry)
  THEN [entries |-> Append(PopInterpreterEntries(entries), entry), near |-> TRUE]
  ELSE IF is_entry_for_interpreter(entry)
       THEN IF near
            THEN [entries |-> entries, near |-> near]
            ELSE [entries |-> Append(entries, entry), near |-> near]
       ELSE [entries |-> Append(entries, entry), near |-> FALSE]

\* One iteration of the loop body after GetCallEntry succeeded: the new
\* (entries, near_java_method).
NoteFrame(art, entry, entries, near) ==
  IF ~art
  THEN IF IsDexEntry(entry)
       THEN [entries |-> Append(PopInterpreterEntries(entries), entry), near |-> TRUE]
       ELSE IF is_entry_for_interpreter(entry)
            THEN IF near
                 THEN [entries |-> entries, near |-> near]
                 ELSE [entries |-> Append(entries, entry), near |-> near]
            ELSE [entries |-> Append(entries, entry), near |-> FALSE]
  ELSE [entries |-> Append(entries, entry), near |-> near]

\* Mutant of OmitUnknownDso: the frame at index 0 is not excepted.
OmitUnknownDso_Always(i) == TRUE

\* bool omit_unknown_dso = i > 0u; with i counted from 1.
OmitUnknownDso(i) == i > 1

\* Mutant of ResolveLoop: continue for break when GetCallEntry fails.
RECURSIVE ResolveLoop_SkipUnknown(_, _, _, _, _, _)
ResolveLoop_SkipUnknown(ips, kernel_ip_count, art, i, entries, near) ==
  IF i > Len(ips) THEN entries
  ELSE LET r == GetCallEntry(i <= kernel_ip_count, ips[i], OmitUnknownDso(i))
       IN IF ~r.ok
          THEN ResolveLoop_SkipUnknown(ips, kernel_ip_count, art, i + 1, entries, near)
          ELSE LET n == NoteFrame(art, r.entry, entries, near)
               IN ResolveLoop_SkipUnknown(ips, kernel_ip_count, art, i + 1, n.entries, n.near)

\* for (size_t i = 0; i < ips.size(); ++i) { ... } with i counted from 1.
RECURSIVE ResolveLoop(_, _, _, _, _, _)
ResolveLoop(ips, kernel_ip_count, art, i, entries, near) ==
  IF i > Len(ips) THEN entries
  ELSE LET r == GetCallEntry(i <= kernel_ip_count, ips[i], OmitUnknownDso(i))
       IN IF ~r.ok THEN entries
          ELSE LET n == NoteFrame(art, r.entry, entries, near)
               IN ResolveLoop(ips, kernel_ip_count, art, i + 1, n.entries, n.near)

\* Mutant of RemoveKernelIps: the ips are erased, kernel_ip_count is not reset.
RemoveKernelIps_KeepCount(ips, kernel_ip_count, remove, available) ==
  IF kernel_ip_count > 0 /\ remove /\ ~available
  THEN [ips |-> SubSeq(ips, kernel_ip_count + 1, Len(ips)), kernel_ip_count |-> kernel_ip_count]
  ELSE [ips |-> ips, kernel_ip_count |-> kernel_ip_count]

\* Mutant of ChainIsEmpty: the test of ips.empty() is lost.
ChainIsEmpty_Never(ips) == FALSE

\* if (ips.empty()) return true;
ChainIsEmpty(ips) == ips = <<>>

\* The chain after kernel removal: [ips, kernel_ip_count].
RemoveKernelIps(ips, kernel_ip_count, remove, available) ==
  IF kernel_ip_count > 0 /\ remove /\ ~available
  THEN [ips |-> SubSeq(ips, kernel_ip_count + 1, Len(ips)), kernel_ip_count |-> 0]
  ELSE [ips |-> ips, kernel_ip_count |-> kernel_ip_count]

\* Mutant of CutCallChain: the chain is cut, kernel_ip_count is left as it was.
CutCallChain_KeepCount(chain, callchain) ==
  IF ~callchain
  THEN [ips |-> IF chain.ips = <<>> THEN <<0>> ELSE <<chain.ips[1]>>,
        kernel_ip_count |-> chain.kernel_ip_count]
  ELSE chain

\* if (!show_callchain_) { ips.resize(1); kernel_ip_count = min(kernel_ip_count, 1); }
CutCallChain(chain, callchain) ==
  IF ~callchain
  THEN [ips |-> IF chain.ips = <<>> THEN <<0>> ELSE <<chain.ips[1]>>,
        kernel_ip_count |-> Min(chain.kernel_ip_count, 1)]
  ELSE chain

\* Mutant of CountSample: the increment is lost.
CountSample_Skip(count) == count

\* sample_count_++;
CountSample(count) == count + 1

\* The entries ProcessSampleRecord hands to the printer for a chain that is
\* not empty after kernel removal.
BuildEntries(chain, callchain, art) ==
  LET c == CutCallChain(chain, callchain)
  IN ResolveLoop(c.ips, c.kernel_ip_count, art, 1, <<>>, FALSE)


(***************************************************************************)
(* The report file.  A frame is a 4-byte length and a proto::Record; the   *)
(* record is a tagged union.  ByteSize follows the protobuf wire format    *)
(* for small values: a scalar field is a tag byte and a value byte, a      *)
(* string or sub-message is a tag byte, a length byte and its content.     *)
(***************************************************************************)
PROT_FILE_MAGIC == "SIMPLEPERF"
PROT_FILE_VERSION == 1

ScalarSize == 2
StringSize == 3

\* Two symbol names standing for symbol tables of 64 MiB and more.
LongSymbol == "long"
LongerSymbol == "longer"
LongSymbolSize == 67108864

\* The bytes of a string field.
StringBytes(str) ==
  CASE str = LongSymbol -> LongSymbolSize
    [] str = LongerSymbol -> LongSymbolSize + 8
    [] OTHER -> StringSize

RECURSIVE SumStringBytes(_)
SumStringBytes(strs) ==
  IF strs = <<>> THEN 0 ELSE StringBytes(Head(strs)) + SumStringBytes(Tail(strs))

\* A call-chain entry: a sub-message of three scalars.
CallChainEntrySize == 2 + 3 * ScalarSize

\* proto::Record::ByteSize(): the oneof member's tag and length, then its fields.
ByteSize(rec) ==
  CASE rec.type = "sample" ->
         2 + 4 * ScalarSize + Len(rec.callchain) * CallChainEntrySize
    [] rec.type = "lost" -> 2 + 2 * ScalarSize
    [] rec.type = "file" ->
         2 + ScalarSize + StringSize + Len(rec.symbol) * StringSize
           + SumStringBytes(rec.mangled_symbol)
    [] rec.type = "thread" -> 2 + 2 * ScalarSize + StringSize
    [] rec.type = "meta_info" ->
         2 + Len(rec.event_type) * StringSize
           + (IF rec.app_package_name # "" THEN StringSize ELSE 0)
    [] OTHER -> 1

Frame(rec) == [size |-> ByteSize(rec), rec |-> rec]
EndFrame == [size |-> 0, rec |-> [type |-> "end"]]
\* What a failed write may leave behind: a length and an incomplete body.
PartialFrame(rec) == [size |-> ByteSize(rec), rec |-> [type |-> "partial"]]

EmptyReport == [magic |-> "", version |-> 0, frames |-> <<>>]

\* Run-level metadata read by OpenRecordFile.
EventTypes == <<"cpu-cycles">>
AppPackageName == "com.example.app"
Pid == 1

(***************************************************************************)
(* Dump ids (Dso::GetDumpId / CreateDumpId, Symbol::GetDumpId,             *)
(* Dso::CreateSymbolDumpId).                                               *)
(***************************************************************************)
\* Dso::CreateDumpId: the next value of the global counter.
CreateDumpId(dids) == Cardinality({d \in Dsos : dids[d] # NoId})

\* Dso::CreateSymbolDumpId: the next value of the dso's own counter.
CreateSymbolDumpId(dso, sids) ==
  Cardinality({s \in Symbols : s.dso = dso /\ sids[s] # NoId})

\* Mutant of FileIdFor: the GetDumpId test is lost and every entry creates an id.
FileIdFor_AlwaysCreate(node, dids) == CreateDumpId(dids)

\* if (!node.dso->GetDumpId(&file_id)) file_id = node.dso->CreateDumpId();
FileIdFor(node, dids) ==
  IF dids[node.dso] # NoId THEN dids[node.dso] ELSE CreateDumpId(dids)

\* Mutant of SymbolIdFor: the test for the unknown symbol is lost, and it is
\* given the next id of its dso.
SymbolIdFor_UnknownGetsId(node, sids) ==
  IF node.symbol # UnknownSymbol /\ sids[node.symbol] # NoId THEN sids[node.symbol]
  ELSE CreateSymbolDumpId(node.dso, sids)

\* symbol_id = -1; if (symbol != UnknownSymbol()) { GetDumpId or CreateSymbolDumpId }
SymbolIdFor(node, sids) ==
  IF node.symbol # UnknownSymbol
  THEN IF sids[node.symbol] # NoId THEN sids[node.symbol]
       ELSE CreateSymbolDumpId(node.dso, sids)
  ELSE -1

\* Mutant of IsCallChainEnd: no entry ends the call chain.
IsCallChainEnd_Never(node) == FALSE

\* The call chain end Android Studio looks for.
IsCallChainEnd(node) ==
  /\ FileName(node.dso) = "libc.so"
  /\ node.symbol.name \in {"__libc_init", "__start_thread"}

\* The loop of PrintSampleRecordInProtobuf over entries, from entry i on:
\* the call chain written and the dump ids afterwards.
RECURSIVE FillCallChain(_, _, _, _, _)
FillCallChain(entries, i, callchain, dids, sids) ==
  IF i > Len(entries)
  THEN [callchain |-> callchain, dids |-> dids, sids |-> sids]
  ELSE LET node == entries[i]
           file_id == FileIdFor(node, dids)
           symbol_id == SymbolIdFor(node, sids)
           dids2 == [dids EXCEPT ![node.dso] = file_id]
           sids2 == IF node.symbol # UnknownSymbol
                    THEN [sids EXCEPT ![node.symbol] = symbol_id] ELSE sids
           cc == Append(callchain, [vaddr_in_file |-> node.vaddr_in_file,
                                    file_id |-> file_id, symbol_id |-> symbol_id])
       IN IF IsCallChainEnd(node)
          THEN [callchain |-> cc, dids |-> dids2, sids |-> sids2]
          ELSE FillCallChain(entries, i + 1, cc, dids2, sids2)

\* std::sort of a set of [key, val] pairs with distinct keys: the vals,
\* ascending by key.
RECURSIVE SortByKey(_)
SortByKey(S) ==
  IF S = {} THEN <<>>
  ELSE LET m == CHOOSE x \in S : \A y \in S : x.key <= y.key
       IN <<m.val>> \o SortByKey(S \ {m})

\* Symbol::DemangledName() of a symbol whose Name() is name.
DemangledName(name) == <<"demangled", name>>

\* Mutant of FileRecord: dump_symbols is not sorted by dump id and keeps the
\* order of GetSymbols().
FileRecord_Unsorted(dso, dids, sids) ==
  LET dump_symbols == SelectSeq(GetSymbols(dso), LAMBDA y : sids[y] # NoId)
  IN [type |-> "file", id |-> dids[dso], path |-> DsoPath(dso),
      symbol |-> [i \in 1..Len(dump_symbols) |-> DemangledName(dump_symbols[i].name)],
      mangled_symbol |-> [i \in 1..Len(dump_symbols) |-> dump_symbols[i].name]]

\* The proto::File of a dso with a dump id.
FileRecord(dso, dids, sids) ==
  LET dump_symbols == SortByKey({[key |-> sids[s], val |-> s] :
                                   s \in {t \in Range(GetSymbols(dso)) : sids[t] # NoId}})
  IN [type |-> "file", id |-> dids[dso], path |-> DsoPath(dso),
      symbol |-> [i \in 1..Len(dump_symbols) |-> DemangledName(dump_symbols[i].name)],
      mangled_symbol |-> [i \in 1..Len(dump_symbols) |-> dump_symbols[i].name]]

\* Mutant of FileRecords: the dsos are not sorted by dump id and keep the order
\* of GetAllDsos().
FileRecords_Unsorted(dids, sids) ==
  LET all == <<"kernel", "libc", "libfoo", "libbar", "libart", "dex", "unknown">>
      dsos == SelectSeq(all, LAMBDA d : dids[d] # NoId)
  IN [i \in 1..Len(dsos) |-> FileRecord(dsos[i], dids, sids)]

\* The records PrintFileInfoInProtobuf writes, in order.
FileRecords(dids, sids) ==
  LET dsos == SortByKey({[key |-> dids[d], val |-> d] :
                           d \in {e \in Dsos : dids[e] # NoId}})
  IN [i \in 1..Len(dsos) |-> FileRecord(dsos[i], dids, sids)]

\* Mutant of ThreadRecords: compare_thread_id is reversed.
ThreadRecords_Descending(tids) ==
  LET sorted == SortByKey({[key |-> 0 - t, val |-> t] : t \in tids})
  IN [i \in 1..Len(sorted) |->
        [type |-> "thread", thread_id |-> sorted[i], process_id |-> Pid,
         thread_name |-> "comm"]]

\* The records PrintThreadInfoInProtobuf writes, in order.
ThreadRecords(tids) ==
  LET sorted == SortByKey({[key |-> t, val |-> t] : t \in tids})
  IN [i \in 1..Len(sorted) |->
        [type |-> "thread", thread_id |-> sorted[i], process_id |-> Pid,
         thread_name |-> "comm"]]


(***************************************************************************)
(* DumpProtobufReport.  A printed line is <<indent, key, value>>.          *)
(***************************************************************************)
\* static_cast<uint32_t> of an int32: a negative value becomes one of at least
\* 2^31, above every count of the model (the checker's integers end at 2^31 - 1).
Uint32(x) == IF x >= 0 THEN x ELSE 2147483647

InitialMaxMessageSize == 67108864

\* Mutant of NoteSymbolId: the test symbol_id != -1 is lost.
NoteSymbolId_CountsUnresolved(map, file_id, symbol_id) ==
  [f \in DOMAIN map \cup {file_id} |->
     IF f = file_id
     THEN Max(IF file_id \in DOMAIN map THEN map[file_id] ELSE 0, symbol_id)
     ELSE map[f]]

\* max_symbol_id_map[file_id] = std::max(max_symbol_id_map[file_id], symbol_id):
\* operator[] inserts 0 for a file id not yet in the map.
NoteSymbolId(map, file_id, symbol_id) ==
  IF symbol_id # -1
  THEN [f \in DOMAIN map \cup {file_id} |->
          IF f = file_id
          THEN Max(IF file_id \in DOMAIN map THEN map[file_id] ELSE 0, symbol_id)
          ELSE map[f]]
  ELSE map

\* The loop over sample.callchain(i), from entry i on.
RECURSIVE DumpCallChain(_, _, _, _)
DumpCallChain(callchain, i, out, map) ==
  IF i > Len(callchain) THEN [ok |-> TRUE, out |-> out, map |-> map]
  ELSE LET e == callchain[i]
           out2 == out \o << <<2, "vaddr_in_file", e.vaddr_in_file>>,
                             <<2, "file_id", e.file_id>>,
                             <<2, "symbol_id", e.symbol_id>> >>
       IN IF e.symbol_id < -1
          THEN [ok |-> FALSE, out |-> out2, map |-> map]
          ELSE DumpCallChain(callchain, i + 1, out2,
                             NoteSymbolId(map, e.file_id, e.symbol_id))

StringLines(indent, key, strs) == [i \in 1..Len(strs) |-> <<indent, key, strs[i]>>]

\* Mutant of FileIdInOrder: only an id beyond the table is refused, a repeated
\* one is not.
FileIdInOrder_NoGapOnly(file, fs) == file.id <= Len(fs)

\* if (file.id() != files.size()) return false; files.push_back(file.symbol_size());
FileIdInOrder(file, fs) == file.id = Len(fs)

\* Mutant of DumpSample: the bounds are checked as each sample is read,
\* against the files declared so far.
DumpSample_FailFast(rec, out, fs, map, count) ==
  LET head == << <<0, "sample", count + 1>>,
                 <<1, "event_type_id", rec.event_type_id>>,
                 <<1, "time", rec.time>>,
                 <<1, "event_count", rec.event_count>>,
                 <<1, "thread_id", rec.thread_id>>,
                 <<1, "callchain", "">> >>
      r == DumpCallChain(rec.callchain, 1, out \o head, map)
      inside == \A f \in DOMAIN r.map : f < Len(fs) /\ r.map[f] < fs[f + 1]
  IN [error |-> IF ~r.ok THEN "unexpected_symbol_id"
                ELSE IF ~inside THEN "out_of_bounds" ELSE "",
      out |-> r.out, files |-> fs, map |-> r.map, count |-> count + 1]

\* if (proto_record.has_sample()) { ... }
DumpSample(rec, out, fs, map, count) ==
  LET head == << <<0, "sample", count + 1>>,
                 <<1, "event_type_id", rec.event_type_id>>,
                 <<1, "time", rec.time>>,
                 <<1, "event_count", rec.event_count>>,
                 <<1, "thread_id", rec.thread_id>>,
                 <<1, "callchain", "">> >>
      r == DumpCallChain(rec.callchain, 1, out \o head, map)
  IN [error |-> IF r.ok THEN "" ELSE "unexpected_symbol_id",
      out |-> r.out, files |-> fs, map |-> r.map, count |-> count + 1]

\* The body of the while loop for a record that parsed: what is printed, the
\* locals afterwards and the error logged, if any.
DumpRecord(rec, out, fs, map, count) ==
  CASE rec.type = "sample" -> DumpSample(rec, out, fs, map, count)
    [] rec.type = "lost" ->
         [error |-> "", files |-> fs, map |-> map, count |-> count,
          out |-> out \o << <<0, "lost_situation", "">>,
                            <<1, "sample_count", rec.sample_count>>,
                            <<1, "lost_count", rec.lost_count>> >>]
    [] rec.type = "file" ->
         LET out2 == out \o << <<0, "file", "">>, <<1, "id", rec.id>>,
                               <<1, "path", rec.path>> >>
                         \o StringLines(1, "symbol", rec.symbol)
                         \o StringLines(1, "mangled_symbol", rec.mangled_symbol)
         IN IF ~FileIdInOrder(rec, fs)
            THEN [error |-> "file_id_order", out |-> out2, files |-> fs, map |-> map,
                  count |-> count]
            ELSE [error |-> "", out |-> out2, files |-> Append(fs, Len(rec.symbol)),
                  map |-> map, count |-> count]
    [] rec.type = "thread" ->
         [error |-> "", files |-> fs, map |-> map, count |-> count,
          out |-> out \o << <<0, "thread", "">>,
                            <<1, "thread_id", rec.thread_id>>,
                            <<1, "process_id", rec.process_id>>,
                            <<1, "thread_name", rec.thread_name>> >>]
    [] rec.type = "meta_info" ->
         [error |-> "", files |-> fs, map |-> map, count |-> count,
          out |-> out \o << <<0, "meta_info", "">> >>
                      \o StringLines(1, "event_type", rec.event_type)
                      \o (IF rec.app_package_name # ""
                          THEN << <<0, "app_package_name", rec.app_package_name>> >>
                          ELSE <<>>)]
    [] OTHER ->
         [error |-> "unexpected_record_type", out |-> out, files |-> fs, map |-> map,
          count |-> count]

\* proto_record.ParseFromCodedStream: fails on a body that is cut short or is
\* no protobuf message.
ParseFromCodedStream(frame) == frame.rec.type \notin {"partial", "malformed"}

\* Mutant of PairInBounds: > for >= in the symbol check.
PairInBounds_OffByOne(file_id, symbol_id, fs) ==
  /\ ~(file_id >= Len(fs))
  /\ ~(Uint32(symbol_id) > fs[file_id + 1])

\* One pair of the loop after the while loop passes both checks.
PairInBounds(file_id, symbol_id, fs) ==
  /\ ~(file_id >= Len(fs))
  /\ ~(Uint32(symbol_id) >= fs[file_id + 1])

\* Mutant of BoundsOk: a pair whose file was not declared is skipped.
BoundsOk_SkipUndeclared(map, fs) ==
  \A f \in DOMAIN map : f < Len(fs) => PairInBounds(f, map[f], fs)

\* for (auto pair : max_symbol_id_map) { ... } return true;
BoundsOk(map, fs) == \A f \in DOMAIN map : PairInBounds(f, map[f], fs)

\* Mutant of IsEndOfStream: a zero length does not end the loop.
IsEndOfStream_Never(size) == FALSE

\* if (size == 0) break;
IsEndOfStream(size) == size = 0

\* Mutant of RaiseMessageSize: the limit follows every length above 64 MiB.
RaiseMessageSize_Follow(max, size) == IF size > InitialMaxMessageSize THEN size ELSE max

\* if (size > max_message_size) max_message_size = size;
RaiseMessageSize(max, size) == IF size > max THEN size ELSE max

\* The dumper opens the file and checks magic and version.
DumpReadHeader ==
  /\ pc = "dump"
  /\ IF report.magic # PROT_FILE_MAGIC
     THEN /\ pc' = "dump_done" /\ dump_result' = "bad_magic" /\ text_out' = text_out
     ELSE IF report.version # PROT_FILE_VERSION
     THEN /\ pc' = "dump_done" /\ dump_result' = "bad_version"
          /\ text_out' = Append(text_out, <<0, "magic", report.magic>>)
     ELSE /\ pc' = "dump_loop" /\ dump_result' = "none"
          /\ text_out' = text_out \o << <<0, "magic", report.magic>>,
                                        <<0, "version", report.version>> >>
  /\ dump_pos' = 0
  /\ files' = <<>>
  /\ max_symbol_id_map' = <<>>
  /\ max_message_size' = InitialMaxMessageSize
  /\ dump_runs' = dump_runs + 1
  /\ UNCHANGED <<flags, encoder_vars, sample_vars, report, dump_sample_count, result>>

\* One iteration of while (true): a length, then a record.
DumpReadRecord ==
  /\ pc = "dump_loop"
  /\ IF dump_pos >= Len(report.frames)
     THEN \* ReadLittleEndian32 fails at the end of the file
          /\ pc' = "dump_done" /\ dump_result' = "read_failed"
          /\ UNCHANGED <<dump_pos, files, max_symbol_id_map, max_message_size,
                         dump_sample_count, text_out>>
     ELSE LET frame == report.frames[dump_pos + 1]
          IN /\ dump_pos' = dump_pos + 1
             /\ IF IsEndOfStream(frame.size)
                THEN /\ pc' = "dump_check"
                     /\ UNCHANGED <<files, max_symbol_id_map, max_message_size,
                                    dump_sample_count, text_out, dump_result>>
                ELSE /\ max_message_size' = RaiseMessageSize(max_message_size, frame.size)
                     /\ IF ~ParseFromCodedStream(frame)
                        THEN /\ pc' = "dump_done" /\ dump_result' = "parse_failed"
                             /\ UNCHANGED <<files, max_symbol_id_map, dump_sample_count,
                                            text_out>>
                        ELSE LET r == DumpRecord(frame.rec, text_out, files,
                                                 max_symbol_id_map, dump_sample_count)
                             IN /\ text_out' = r.out
                                /\ files' = r.files
                                /\ max_symbol_id_map' = r.map
                                /\ dump_sample_count' = r.count
                                /\ IF r.error # ""
                                   THEN pc' = "dump_done" /\ dump_result' = r.error
                                   ELSE pc' = "dump_loop" /\ dump_result' = "none"
  /\ UNCHANGED <<flags, encoder_vars, sample_vars, report, dump_runs, result>>

\* The checks after the loop.
DumpCheckBounds ==
  /\ pc = "dump_check"
  /\ pc' = "dump_done"
  /\ dump_result' = IF BoundsOk(max_symbol_id_map, files) THEN "ok" ELSE "out_of_bounds"
  /\ UNCHANGED <<flags, encoder_vars, sample_vars, report, text_out, dump_pos, files,
                 max_symbol_id_map, max_message_size, dump_sample_count, dump_runs, result>>

\* The same process calls DumpProtobufReport again on the same file.
DumpAgain ==
  /\ pc = "dump_done"
  /\ dump_runs < MaxDumps
  /\ pc' = "dump"
  /\ UNCHANGED <<flags, encoder_vars, sample_vars, dump_vars, report, text_out, result>>


(***************************************************************************)
(* The report run: Run, steps 5 and 6.                                     *)
(***************************************************************************)
\* What WriteRecordInProtobuf can do to the report: [ok, report].  A failed
\* write leaves an incomplete frame behind.
WriteRecordInProtobuf(rep, rec) ==
  {[ok |-> TRUE, report |-> [rep EXCEPT !.frames = Append(@, Frame(rec))]],
   [ok |-> FALSE, report |-> [rep EXCEPT !.frames = Append(@, PartialFrame(rec))]]}

\* Mutant of WriteRecords: the result of WriteRecordInProtobuf is ignored.
RECURSIVE WriteRecords_IgnoreFailure(_, _)
WriteRecords_IgnoreFailure(rep, recs) ==
  IF recs = <<>> THEN {[ok |-> TRUE, report |-> rep]}
  ELSE UNION {WriteRecords_IgnoreFailure(w.report, Tail(recs)) :
              w \in WriteRecordInProtobuf(rep, Head(recs))}

\* Writing records one after the other until one fails.
RECURSIVE WriteRecords(_, _)
WriteRecords(rep, recs) ==
  IF recs = <<>> THEN {[ok |-> TRUE, report |-> rep]}
  ELSE UNION {IF w.ok THEN WriteRecords(w.report, Tail(recs)) ELSE {w} :
              w \in WriteRecordInProtobuf(rep, Head(recs))}

MetaInfoRecord ==
  [type |-> "meta_info", event_type |-> EventTypes, app_package_name |-> AppPackageName]

\* Steps 5 and 6 up to PrintMetaInfo: the header, then the meta info.
PrintMetaInfo ==
  /\ pc = "start"
  /\ IF use_protobuf
     THEN \/ \* fprintf/fwrite of magic and version failed
             /\ pc' = "done" /\ result' = "false"
             /\ UNCHANGED <<report, text_out>>
          \/ \E w \in WriteRecordInProtobuf(
                        [magic |-> PROT_FILE_MAGIC, version |-> PROT_FILE_VERSION,
                         frames |-> <<>>], MetaInfoRecord) :
               /\ report' = w.report
               /\ IF w.ok THEN pc' = "read" /\ result' = result
                          ELSE pc' = "done" /\ result' = "false"
               /\ text_out' = text_out
     ELSE /\ text_out' = text_out \o << <<0, "meta_info", "">>,
                                       <<1, "trace_offcpu", "false">> >>
                                  \o StringLines(1, "event_type", EventTypes)
                                  \o (IF AppPackageName # ""
                                      THEN << <<1, "app_package_name", AppPackageName>> >>
                                      ELSE <<>>)
          /\ pc' = "read"
          /\ UNCHANGED <<report, result>>
  /\ UNCHANGED <<flags, encoder_vars, sample_vars, dump_vars>>

\* The records ReadDataSection can deliver.
KernelIp == 128
\* f and g of libfoo.so, an address of libfoo.so without symbol, __libc_init,
\* and an address in no map.
RunUserIps == {16, 20, 28, 48, 200}
RunTids == {2}
CommTid == 1

RunChains ==
  {k \o u : k \in SeqsUpTo({KernelIp}, 1), u \in SeqsUpTo(RunUserIps, MaxRunChain)} \ {<<>>}

KernelIpCount(ips) == Cardinality({i \in 1..Len(ips) : ips[i] = KernelIp})

Events ==
  {[type |-> "sample", tid |-> t, ips |-> c, kernel_ip_count |-> KernelIpCount(c), lost |-> 0] :
     t \in RunTids, c \in RunChains}
  \cup {[type |-> "lost", tid |-> 0, ips |-> <<>>, kernel_ip_count |-> 0, lost |-> n] :
          n \in 1..MaxLost}
  \cup {[type |-> "comm", tid |-> CommTid, ips |-> <<>>, kernel_ip_count |-> 0, lost |-> 0]}

\* The proto::Sample of a record and its call chain.
SampleRecord(tid, time, callchain) ==
  [type |-> "sample", time |-> time, event_count |-> 1, thread_id |-> tid,
   event_type_id |-> 0, callchain |-> callchain]

\* PrintSampleRecord: the lines of a sample in text mode.
EntryLines(indent, e) ==
  << <<indent, "vaddr_in_file", e.vaddr_in_file>>, <<indent, "file", DsoPath(e.dso)>>,
     <<indent, "symbol", DemangledName(e.symbol.name)>> >>

RECURSIVE CallChainLines(_, _)
CallChainLines(entries, i) ==
  IF i > Len(entries) THEN <<>>
  ELSE EntryLines(2, entries[i]) \o CallChainLines(entries, i + 1)

PrintSampleRecord(tid, time, entries) ==
  << <<0, "sample", "">>, <<1, "event_type", EventTypes[1]>>, <<1, "time", time>>,
     <<1, "event_count", 1>>, <<1, "thread_id", tid>>, <<1, "thread_name", "comm">> >>
  \o EntryLines(1, entries[1])
  \o (IF Len(entries) > 1
      THEN << <<1, "callchain", "">> >> \o CallChainLines(entries, 2)
      ELSE <<>>)

\* ProcessSampleRecord on record r, the nevents'-th of the file.
ProcessSampleRecord(r) ==
  LET chain == RemoveKernelIps(r.ips, r.kernel_ip_count, remove_unknown_kernel_symbols,
                               kernel_symbols_available)
      entries == BuildEntries(chain, show_callchain, show_art_frames)
  IN /\ IF ChainIsEmpty(chain.ips)
        THEN /\ pc' = "read"
             /\ UNCHANGED <<sample_count, threads, dso_dump_id, symbol_dump_id, emitted,
                            report, text_out, result>>
        ELSE /\ sample_count' = CountSample(sample_count)
             /\ threads' = threads \cup {r.tid}
             /\ IF use_protobuf
                THEN LET f == FillCallChain(entries, 1, <<>>, dso_dump_id, symbol_dump_id)
                     IN /\ dso_dump_id' = f.dids
                        /\ symbol_dump_id' = f.sids
                        /\ \E w \in WriteRecordInProtobuf(
                                      report, SampleRecord(r.tid, nevents', f.callchain)) :
                             /\ report' = w.report
                             /\ emitted' = IF w.ok
                                           THEN emitted \o SubSeq(entries, 1, Len(f.callchain))
                                           ELSE emitted
                             /\ IF w.ok THEN pc' = "read" /\ result' = result
                                        ELSE pc' = "done" /\ result' = "false"
                        /\ text_out' = text_out
                ELSE /\ IF entries = <<>>
                        THEN \* CHECK(!entries.empty()) aborts the process
                             pc' = "aborted" /\ text_out' = text_out
                        ELSE /\ pc' = "read"
                             /\ text_out' = text_out \o PrintSampleRecord(r.tid, nevents', entries)
                     /\ UNCHANGED <<dso_dump_id, symbol_dump_id, emitted, report, result>>

\* Mutant of AccumulateLost: = for +=.
AccumulateLost_Overwrite(count, lost) == lost

\* lost_count_ += lost;
AccumulateLost(count, lost) == count + lost

\* ProcessRecord, the callback of ReadDataSection.  sample_in keeps the record
\* it was called with.
ProcessRecord ==
  /\ pc = "read"
  /\ nevents < MaxEvents
  /\ \E r \in Events :
       /\ nevents' = nevents + 1
       /\ sample_in' = r
       /\ UNCHANGED <<cur_ips, cur_kernel_ip_count, cur_entries>>
       /\ IF r.type = "sample"
          THEN /\ ProcessSampleRecord(r)
               /\ UNCHANGED lost_count
          ELSE /\ lost_count' = IF r.type = "lost" THEN AccumulateLost(lost_count, r.lost)
                                 ELSE lost_count
               /\ threads' = IF r.type = "comm" THEN threads \cup {r.tid} ELSE threads
               /\ pc' = "read"
               /\ UNCHANGED <<sample_count, dso_dump_id, symbol_dump_id, emitted, report,
                              text_out, result>>
  /\ UNCHANGED <<flags, dump_vars>>

\* ReadDataSection has delivered every record and returns true.
ReadDataSectionDone ==
  /\ pc = "read"
  /\ pc' = "lost"
  /\ UNCHANGED <<flags, encoder_vars, sample_vars, dump_vars, report, text_out, result>>

\* ReadDataSection fails to read the record file and returns false.
ReadDataSectionFail ==
  /\ pc = "read"
  /\ pc' = "done"
  /\ result' = "false"
  /\ UNCHANGED <<flags, encoder_vars, sample_vars, dump_vars, report, text_out>>

LostRecord == [type |-> "lost", sample_count |-> sample_count, lost_count |-> lost_count]

PrintLostSituationInProtobuf ==
  /\ pc = "lost"
  /\ use_protobuf
  /\ \E w \in WriteRecordInProtobuf(report, LostRecord) :
       /\ report' = w.report
       /\ IF w.ok THEN pc' = "files" /\ result' = result
                  ELSE pc' = "done" /\ result' = "false"
  /\ UNCHANGED <<flags, encoder_vars, sample_vars, dump_vars, text_out>>

\* Text mode: PrintLostSituation, fflush and the ferror check.
PrintLostSituation ==
  /\ pc = "lost"
  /\ ~use_protobuf
  /\ text_out' = text_out \o << <<0, "lost_situation", "">>,
                                <<1, "sample_count", sample_count>>,
                                <<1, "lost_count", lost_count>> >>
  /\ pc' = "done"
  /\ result' \in {"true", "false"}
  /\ UNCHANGED <<flags, encoder_vars, sample_vars, dump_vars, report>>

PrintFileInfoInProtobuf ==
  /\ pc = "files"
  /\ \E w \in WriteRecords(report, FileRecords(dso_dump_id, symbol_dump_id)) :
       /\ report' = w.report
       /\ IF w.ok THEN pc' = "threads" /\ result' = result
                  ELSE pc' = "done" /\ result' = "false"
  /\ UNCHANGED <<flags, encoder_vars, sample_vars, dump_vars, text_out>>

PrintThreadInfoInProtobuf ==
  /\ pc = "threads"
  /\ \E w \in WriteRecords(report, ThreadRecords(threads)) :
       /\ report' = w.report
       /\ IF w.ok THEN pc' = "end" /\ result' = result
                  ELSE pc' = "done" /\ result' = "false"
  /\ UNCHANGED <<flags, encoder_vars, sample_vars, dump_vars, text_out>>

\* coded_os_->WriteLittleEndian32(0) and the HadError check.
WriteEnd ==
  /\ pc = "end"
  /\ \/ /\ report' = [report EXCEPT !.frames = Append(@, EndFrame)]
        /\ result' = "true"
     \/ /\ report' = report
        /\ result' = "false"
  /\ pc' = "done"
  /\ UNCHANGED <<flags, encoder_vars, sample_vars, dump_vars, text_out>>

\* A later run with --dump-protobuf-report on the report just written.
StartDump ==
  /\ pc = "done"
  /\ use_protobuf
  /\ result = "true"
  /\ pc' = "dump"
  /\ UNCHANGED <<flags, encoder_vars, sample_vars, dump_vars, report, text_out, result>>

(***************************************************************************)
(* Spec: a report run and, after a protobuf run that succeeded, a dump of  *)
(* its report.                                                             *)
(***************************************************************************)
NoDumpIds == [dso_ids |-> [d \in Dsos |-> NoId], symbol_ids |-> [s \in Symbols |-> NoId]]

InitRunState ==
  /\ sample_count = 0
  /\ lost_count = 0
  /\ dso_dump_id = NoDumpIds.dso_ids
  /\ symbol_dump_id = NoDumpIds.symbol_ids
  /\ threads = {}
  /\ nevents = 0
  /\ emitted = <<>>
  /\ report = EmptyReport
  /\ text_out = <<>>
  /\ result = "none"

NoSample == [type |-> "none", tid |-> 0, ips |-> <<>>, kernel_ip_count |-> 0, lost |-> 0]

InitSampleState ==
  /\ sample_in = NoSample
  /\ cur_ips = <<>>
  /\ cur_kernel_ip_count = 0
  /\ cur_entries = <<>>

InitDumpState ==
  /\ dump_pos = 0
  /\ files = <<>>
  /\ max_symbol_id_map = <<>>
  /\ max_message_size = InitialMaxMessageSize
  /\ dump_sample_count = 0
  /\ dump_result = "none"
  /\ dump_runs = 0

Init ==
  /\ show_callchain \in BOOLEAN
  /\ use_protobuf \in BOOLEAN
  /\ remove_unknown_kernel_symbols \in BOOLEAN
  /\ kernel_symbols_available = FALSE
  /\ show_art_frames = FALSE
  /\ pc = "start"
  /\ InitRunState
  /\ InitSampleState
  /\ InitDumpState

Next ==
  \/ PrintMetaInfo
  \/ ProcessRecord
  \/ ReadDataSectionDone
  \/ ReadDataSectionFail
  \/ PrintLostSituationInProtobuf
  \/ PrintLostSituation
  \/ PrintFileInfoInProtobuf
  \/ PrintThreadInfoInProtobuf
  \/ WriteEnd
  \/ StartDump
  \/ DumpReadHeader
  \/ DumpReadRecord
  \/ DumpCheckBounds

Spec == Init /\ [][Next]_vars


(***************************************************************************)
(* SpecResolve: ProcessSampleRecord alone, on every chain of kernel and    *)
(* user ips up to MaxChain, under every setting of the options.            *)
(***************************************************************************)
\* One user ip in each of libfoo.so, libart.so, the dex file and no map.
NativeIp == 16
InterpreterIp == 64
DexIp == 80
UnmappedIp == 200
ResolveUserIps == {NativeIp, InterpreterIp, DexIp, UnmappedIp}

ResolveChains ==
  {c \in {k \o u : k \in SeqsUpTo({KernelIp}, MaxKernelIps),
                   u \in SeqsUpTo(ResolveUserIps, MaxChain)} :
     Len(c) >= 1 /\ Len(c) <= MaxChain}

InitResolve ==
  /\ show_callchain \in BOOLEAN
  /\ use_protobuf = FALSE
  /\ remove_unknown_kernel_symbols \in BOOLEAN
  /\ kernel_symbols_available \in BOOLEAN
  /\ show_art_frames \in BOOLEAN
  /\ pc = "sample"
  /\ InitRunState
  /\ InitDumpState
  /\ \E c \in ResolveChains :
       sample_in = [tid |-> 2, ips |-> c, kernel_ip_count |-> KernelIpCount(c)]
  /\ cur_ips = <<>>
  /\ cur_kernel_ip_count = 0
  /\ cur_entries = <<>>

\* ProcessSampleRecord from GetCallChain to the end of the loop over ips.
ResolveSample ==
  /\ pc = "sample"
  /\ LET chain == RemoveKernelIps(sample_in.ips, sample_in.kernel_ip_count,
                                  remove_unknown_kernel_symbols, kernel_symbols_available)
         cut == CutCallChain(chain, show_callchain)
     IN IF ChainIsEmpty(chain.ips)
        THEN /\ pc' = "skipped"
             /\ cur_ips' = chain.ips
             /\ cur_kernel_ip_count' = chain.kernel_ip_count
             /\ UNCHANGED <<cur_entries, sample_count, threads>>
        ELSE /\ pc' = "resolved"
             /\ cur_ips' = cut.ips
             /\ cur_kernel_ip_count' = cut.kernel_ip_count
             /\ sample_count' = CountSample(sample_count)
             /\ threads' = threads \cup {sample_in.tid}
             /\ cur_entries' = BuildEntries(chain, show_callchain, show_art_frames)
  /\ UNCHANGED <<flags, lost_count, dso_dump_id, symbol_dump_id, nevents, emitted, report,
                 text_out, sample_in, dump_vars, result>>

NextResolve == ResolveSample

SpecResolve == InitResolve /\ [][NextResolve]_vars


(***************************************************************************)
(* SpecDump: DumpProtobufReport on every report file of at most MaxStream  *)
(* frames, well formed or not, with or without the zero length at its end. *)
(***************************************************************************)
DumpCallChainEntries ==
  {[vaddr_in_file |-> 0, file_id |-> f, symbol_id |-> y] :
     f \in 0..MaxFileId, y \in -2..MaxSymbolId}

SymbolNames(n) == [i \in 1..n |-> "sym"]

\* The records with n call-chain entries (records that are no sample have none).
DumpRecords(n) ==
  {SampleRecord(2, 1, c) : c \in {d \in SeqsUpTo(DumpCallChainEntries, n) : Len(d) = n}}
  \cup (IF n > 0 THEN {}
        ELSE {[type |-> "file", id |-> f, path |-> <<"data", "app", "libfoo.so">>,
               symbol |-> SymbolNames(k), mangled_symbol |-> SymbolNames(k)] :
                f \in 0..MaxFileId, k \in 0..MaxSymbolCount}
             \cup {[type |-> "lost", sample_count |-> 1, lost_count |-> 0],
                   [type |-> "thread", thread_id |-> 2, process_id |-> Pid,
                    thread_name |-> "comm"],
                   MetaInfoRecord,
                   [type |-> "malformed"],
                   [type |-> "unknown_field"]})

\* The frame sequences of at most len frames holding at most n call-chain entries.
RECURSIVE DumpStreams(_, _)
DumpStreams(len, n) ==
  IF len = 0 THEN {<<>>}
  ELSE {<<>>} \cup
       UNION {{<<Frame(r)>> \o t : r \in DumpRecords(k), t \in DumpStreams(len - 1, n - k)} :
              k \in 0..n}

\* Frames of lost records and of file records with one long symbol name.
LargeFrames ==
  {Frame([type |-> "lost", sample_count |-> 1, lost_count |-> 0])}
  \cup {Frame([type |-> "file", id |-> f, path |-> <<"data", "app", "libfoo.so">>,
                symbol |-> <<"sym">>, mangled_symbol |-> <<n>>]) :
           f \in 0..MaxFileId, n \in {LongSymbol, LongerSymbol}}

\* What a report may hold after its zero length.
Trailers == (DumpStreams(1, 1) \ {<<>>}) \cup {<<EndFrame>>}

\* The state in which DumpProtobufReport is called, the report file apart.
InitDumpCall ==
  /\ show_callchain = FALSE
  /\ use_protobuf = FALSE
  /\ remove_unknown_kernel_symbols = FALSE
  /\ kernel_symbols_available = FALSE
  /\ show_art_frames = FALSE
  /\ pc = "dump"
  /\ sample_count = 0
  /\ lost_count = 0
  /\ dso_dump_id = NoDumpIds.dso_ids
  /\ symbol_dump_id = NoDumpIds.symbol_ids
  /\ threads = {}
  /\ nevents = 0
  /\ emitted = <<>>
  /\ text_out = <<>>
  /\ result = "none"
  /\ InitSampleState
  /\ InitDumpState

GoodHeader(frames) ==
  [magic |-> PROT_FILE_MAGIC, version |-> PROT_FILE_VERSION, frames |-> frames]

InitDump ==
  /\ InitDumpCall
  /\ \/ \E t \in DumpStreams(MaxStream, MaxDumpEntries), e \in {<<>>, <<EndFrame>>} :
          report = GoodHeader(t \o e)
     \/ \E t \in DumpStreams(1, 1), g \in Trailers :
          report = GoodHeader(t \o <<EndFrame>> \o g)
     \/ \E t \in SeqsUpTo(LargeFrames, MaxStream), e \in {<<>>, <<EndFrame>>} :
          report = GoodHeader(t \o e)
     \/ report \in {[magic |-> "SIMPLEPERX", version |-> PROT_FILE_VERSION,
                     frames |-> <<EndFrame>>],
                    [magic |-> PROT_FILE_MAGIC, version |-> 2, frames |-> <<EndFrame>>]}

NextDump ==
  \/ DumpReadHeader
  \/ DumpReadRecord
  \/ DumpCheckBounds

SpecDump == InitDump /\ [][NextDump]_vars

(***************************************************************************)
(* SpecRedump: one process calls DumpProtobufReport up to MaxDumps times   *)
(* on the same report file of at most two frames.                          *)
(***************************************************************************)
InitRedump ==
  /\ InitDumpCall
  /\ \E t \in DumpStreams(2, 2), e \in {<<>>, <<EndFrame>>} : report = GoodHeader(t \o e)

NextRedump ==
  \/ DumpReadHeader
  \/ DumpReadRecord
  \/ DumpCheckBounds
  \/ DumpAgain

SpecRedump == InitRedump /\ [][NextRedump]_vars


(***************************************************************************)
(* Properties.                                                             *)
(***************************************************************************)
\* The call-chain entries of the sample records among frames, in order.
RECURSIVE FlatCallChain(_)
FlatCallChain(frames) ==
  IF frames = <<>> THEN <<>>
  ELSE (IF Head(frames).rec.type = "sample" THEN Head(frames).rec.callchain ELSE <<>>)
       \o FlatCallChain(Tail(frames))

FramesOfType(frames, type) == {i \in 1..Len(frames) : frames[i].rec.type = type}

LinesWith(out, indent, key) == {i \in 1..Len(out) : out[i][1] = indent /\ out[i][2] = key}

CountLines(out, indent, key) == Cardinality(LinesWith(out, indent, key))

LineValues(out, indent, key) == {out[i][3] : i \in LinesWith(out, indent, key)}

EmittedDsos == {emitted[i].dso : i \in 1..Len(emitted)}

EmittedSymbols(dso) ==
  {emitted[i].symbol : i \in {j \in 1..Len(emitted) :
                                emitted[j].dso = dso /\ emitted[j].symbol # UnknownSymbol}}

\* C1: the dump of the report of a successful protobuf run succeeds, and it
\* shows as many samples, files, symbols per file and threads as the run
\* emitted, and a lost record with the run's two counters.
C1_RoundTrip ==
  pc = "dump_done" =>
    /\ dump_result = "ok"
    /\ CountLines(text_out, 0, "sample") = Cardinality(FramesOfType(report.frames, "sample"))
    /\ CountLines(text_out, 0, "sample") = sample_count
    /\ CountLines(text_out, 0, "lost_situation") = 1
    /\ LineValues(text_out, 1, "sample_count") = {sample_count}
    /\ LineValues(text_out, 1, "lost_count") = {lost_count}
    /\ CountLines(text_out, 0, "file") = Cardinality(EmittedDsos)
    /\ Len(files) = Cardinality(EmittedDsos)
    /\ \A d \in EmittedDsos : files[dso_dump_id[d] + 1] = Cardinality(EmittedSymbols(d))
    /\ CountLines(text_out, 0, "thread") = Cardinality(threads)

C1_Witness ==
  /\ pc = "dump_done"
  /\ dump_result = "ok"
  /\ sample_count = 2
  /\ Len(files) >= 2
  /\ \E f \in 1..Len(files) : files[f] >= 2

Rank(type) ==
  CASE type = "meta_info" -> 1
    [] type = "sample" -> 2
    [] type = "lost" -> 3
    [] type = "file" -> 4
    [] type = "thread" -> 5
    [] type = "end" -> 6
    [] OTHER -> 7

\* C2: the frames of a successful protobuf run are one meta info, the samples
\* in the order of their events, one lost record, the files by strictly
\* ascending id, the threads by ascending thread id and the zero length; at
\* no time does a record of an earlier phase follow one of a later phase.
C2_RecordOrder ==
  LET fr == report.frames
      n == Len(fr)
      Ordered(type, Key(_)) ==
        \A i, j \in FramesOfType(fr, type) : i < j => Key(fr[i].rec) < Key(fr[j].rec)
      Time(rec) == rec.time
      Id(rec) == rec.id
      Tid(rec) == rec.thread_id
  IN /\ \A i, j \in 1..n : i < j => Rank(fr[i].rec.type) <= Rank(fr[j].rec.type)
     /\ (use_protobuf /\ result = "true") =>
          /\ n >= 3
          /\ fr[1].rec.type = "meta_info"
          /\ fr[n] = EndFrame
          /\ \A type \in {"meta_info", "lost", "end"} :
               Cardinality(FramesOfType(fr, type)) = 1
          /\ FramesOfType(fr, "partial") = {}
          /\ Cardinality(FramesOfType(fr, "sample")) = sample_count
          /\ Ordered("sample", Time)
          /\ Ordered("file", Id)
          /\ Ordered("thread", Tid)

C2_Witness ==
  /\ use_protobuf
  /\ result = "true"
  /\ Cardinality(FramesOfType(report.frames, "sample")) >= 1
  /\ Cardinality(FramesOfType(report.frames, "file")) >= 2
  /\ Cardinality(FramesOfType(report.frames, "thread")) >= 2

\* C3: in the sample records written, the first entry of a file carries the
\* number of files that appeared before it, every later entry of that file
\* carries the same id, and no id stands for two files.
C3_FileIdAllocation ==
  LET cc == FlatCallChain(report.frames)
  IN /\ Len(cc) = Len(emitted)
     /\ \A p \in 1..Len(cc) :
          LET before == {emitted[q].dso : q \in 1..(p - 1)}
          IN IF emitted[p].dso \notin before
             THEN cc[p].file_id = Cardinality(before)
             ELSE \A q \in 1..(p - 1) :
                    emitted[q].dso = emitted[p].dso => cc[q].file_id = cc[p].file_id
     /\ \A p, q \in 1..Len(cc) :
          cc[p].file_id = cc[q].file_id => emitted[p].dso = emitted[q].dso

\* A second sample refers again to the file that got id 1 in the first.
C3_Witness ==
  \E i, j \in FramesOfType(report.frames, "sample") :
    /\ i < j
    /\ \E a \in 1..Len(report.frames[i].rec.callchain),
          b \in 1..Len(report.frames[j].rec.callchain) :
         /\ report.frames[i].rec.callchain[a].file_id = 1
         /\ report.frames[j].rec.callchain[b].file_id = 1
         /\ b > 1

\* C4: in the report of a successful protobuf run every entry's file has a
\* file record, the entry's symbol id is at least -1 and below the number of
\* symbols the record lists, and the record lists at index i the symbol that
\* entries call i.
C4_SymbolBounds ==
  (use_protobuf /\ result = "true") =>
    LET fr == report.frames
        cc == FlatCallChain(fr)
    IN \A p \in 1..Len(cc) :
         /\ \E i \in FramesOfType(fr, "file") : fr[i].rec.id = cc[p].file_id
         /\ \A i \in FramesOfType(fr, "file") :
              fr[i].rec.id = cc[p].file_id =>
                /\ fr[i].rec.path = DsoPath(emitted[p].dso)
                /\ -1 <= cc[p].symbol_id
                /\ cc[p].symbol_id < Len(fr[i].rec.symbol)
                /\ Len(fr[i].rec.mangled_symbol) = Len(fr[i].rec.symbol)
                /\ cc[p].symbol_id >= 0 =>
                     /\ fr[i].rec.mangled_symbol[cc[p].symbol_id + 1] = emitted[p].symbol.name
                     /\ fr[i].rec.symbol[cc[p].symbol_id + 1]
                          = DemangledName(emitted[p].symbol.name)

\* libfoo.so lists g before f, because g was met first.
C4_Witness ==
  /\ use_protobuf
  /\ result = "true"
  /\ \E i \in FramesOfType(report.frames, "file") :
       report.frames[i].rec.mangled_symbol = <<"g", "f">>


(***************************************************************************)
(* Properties of DumpProtobufReport, over the report files of SpecDump.    *)
(***************************************************************************)
\* The index of the first zero length of the report, 0 when it has none.
EndIndex ==
  LET ends == {i \in 1..Len(report.frames) : report.frames[i].size = 0}
  IN IF ends = {} THEN 0 ELSE CHOOSE i \in ends : \A j \in ends : i <= j

\* The frames before the zero length.
StreamBody == SubSeq(report.frames, 1, EndIndex - 1)

HeaderOk == report.magic = PROT_FILE_MAGIC /\ report.version = PROT_FILE_VERSION

\* Header and end are there and every record is one of the five kinds.
AllDecode ==
  /\ HeaderOk
  /\ EndIndex > 0
  /\ \A i \in 1..Len(StreamBody) :
       StreamBody[i].rec.type \in {"sample", "lost", "file", "thread", "meta_info"}

StreamCallChain == FlatCallChain(StreamBody)

StreamFiles == FramesOfType(StreamBody, "file")

\* The number of file records before frame i.
FilesBefore(frames, i) == Cardinality({j \in FramesOfType(frames, "file") : j < i})

\* The frames the dumper has read so far.
Consumed == SubSeq(report.frames, 1, dump_pos)

\* C5: when all records decode and some entry refers to symbol s >= 0 of a
\* file whose record declares N <= s symbols, the dump fails.
C5_DecoderSymbolBound ==
  (/\ pc = "dump_done"
   /\ AllDecode
   /\ \E p \in 1..Len(StreamCallChain), i \in StreamFiles :
        /\ StreamCallChain[p].symbol_id >= 0
        /\ StreamBody[i].rec.id = StreamCallChain[p].file_id
        /\ StreamCallChain[p].symbol_id >= Len(StreamBody[i].rec.symbol))
  => dump_result \notin {"ok", "none"}

\* The bounds check itself refuses a symbol id equal to the symbol count.
C5_Witness ==
  /\ pc = "dump_done"
  /\ dump_result = "out_of_bounds"
  /\ \E p \in 1..Len(StreamCallChain), i \in StreamFiles :
       /\ StreamBody[i].rec.id = StreamCallChain[p].file_id
       /\ StreamCallChain[p].symbol_id = Len(StreamBody[i].rec.symbol)
       /\ StreamCallChain[p].symbol_id = 1

\* C6: the k-th file record read must declare id k; the first that does not
\* ends the dump at once with an error and is not added to files.
C6_SequentialFileIds ==
  LET fidx == FramesOfType(Consumed, "file")
      bad == {i \in fidx : Consumed[i].rec.id # FilesBefore(Consumed, i)}
  IN /\ \A i \in fidx \ bad :
          /\ Len(files) > FilesBefore(Consumed, i)
          /\ files[FilesBefore(Consumed, i) + 1] = Len(Consumed[i].rec.symbol)
     /\ Len(files) = Cardinality(fidx \ bad)
     /\ bad # {} => /\ bad = {dump_pos}
                    /\ pc = "dump_done"
                    /\ dump_result = "file_id_order"
     /\ dump_result = "file_id_order" => bad # {}

\* A record repeating id 0 after the record with id 0 was accepted.
C6_Witness ==
  /\ dump_result = "file_id_order"
  /\ Len(files) = 1
  /\ Consumed[dump_pos].rec.id = 0
  /\ dump_pos < Len(report.frames)

\* C7 as claimed: when all records decode and some entry, whatever its symbol
\* id, refers to a file id that no file record declares, the dump fails.
C7_AnyEntryOutOfRange ==
  (/\ pc = "dump_done"
   /\ AllDecode
   /\ \E p \in 1..Len(StreamCallChain) :
        StreamCallChain[p].file_id >= Cardinality(StreamFiles))
  => dump_result \notin {"ok", "none"}

NoBadSymbolId == \A p \in 1..Len(StreamCallChain) : StreamCallChain[p].symbol_id >= -1

FileIdsSequential == \A i \in StreamFiles : StreamBody[i].rec.id = FilesBefore(StreamBody, i)

\* C7, for resolved entries only: when all records decode and some entry with
\* a symbol id >= 0 refers to a file id that no file record declares, the
\* dump fails; it fails in the check after the loop when nothing else is
\* wrong.  This is what lines 348-351 and 398-403 guarantee.
C7_ResolvedEntryOutOfRange ==
  (/\ pc = "dump_done"
   /\ AllDecode
   /\ \E p \in 1..Len(StreamCallChain) :
        /\ StreamCallChain[p].symbol_id >= 0
        /\ StreamCallChain[p].file_id >= Cardinality(StreamFiles))
  => /\ dump_result \notin {"ok", "none"}
     /\ (NoBadSymbolId /\ FileIdsSequential) =>
          (dump_result = "out_of_bounds" /\ dump_pos = EndIndex)

C7_Witness ==
  /\ pc = "dump_done"
  /\ dump_result = "out_of_bounds"
  /\ Cardinality(StreamFiles) = 1
  /\ \E p \in 1..Len(StreamCallChain) :
       StreamCallChain[p].symbol_id >= 0 /\ StreamCallChain[p].file_id = 1

\* The entries of the samples read so far that the loop over call chains
\* went through without error.
RECURSIVE AcceptedEntries(_)
AcceptedEntries(frames) ==
  IF frames = <<>> THEN <<>>
  ELSE LET cc == IF Head(frames).rec.type = "sample" THEN Head(frames).rec.callchain
                 ELSE <<>>
           bad == {i \in 1..Len(cc) : cc[i].symbol_id < -1}
       IN IF bad = {} THEN cc \o AcceptedEntries(Tail(frames))
          ELSE SubSeq(cc, 1, (CHOOSE i \in bad : \A j \in bad : i <= j) - 1)

\* C8: an entry with a symbol id below -1 ends the dump when it is printed:
\* no later entry is printed and no later frame read.  An entry with -1 is
\* accepted and never enters max_symbol_id_map.
C8_NegativeSymbolId ==
  LET acc == AcceptedEntries(Consumed)
      all == FlatCallChain(Consumed)
      resolved == {i \in 1..Len(acc) : acc[i].symbol_id >= 0}
  IN /\ dump_result = "unexpected_symbol_id" <=> Len(acc) < Len(all)
     /\ Len(acc) < Len(all) =>
          /\ pc = "dump_done"
          /\ Consumed[dump_pos].rec.type = "sample"
          /\ all[Len(acc) + 1].symbol_id < -1
          /\ CountLines(text_out, 2, "symbol_id") = Len(acc) + 1
          /\ Last(text_out) = <<2, "symbol_id", all[Len(acc) + 1].symbol_id>>
     /\ Len(acc) = Len(all) => CountLines(text_out, 2, "symbol_id") = Len(acc)
     /\ DOMAIN max_symbol_id_map = {acc[i].file_id : i \in resolved}
     /\ \A f \in DOMAIN max_symbol_id_map :
          /\ \E i \in resolved : acc[i].file_id = f /\ acc[i].symbol_id = max_symbol_id_map[f]
          /\ \A i \in resolved : acc[i].file_id = f => acc[i].symbol_id <= max_symbol_id_map[f]

\* The bad entry is followed by another entry and by another frame, and an
\* entry with -1 was accepted before it.
C8_Witness ==
  /\ dump_result = "unexpected_symbol_id"
  /\ dump_pos < Len(report.frames)
  /\ dump_pos = 2
  /\ Consumed[1].rec.type = "sample"
  /\ Len(Consumed[1].rec.callchain) = 1
  /\ Consumed[1].rec.callchain[1].symbol_id = -1
  /\ max_symbol_id_map = <<>>

RecordLines ==
  CountLines(text_out, 0, "sample") + CountLines(text_out, 0, "lost_situation")
  + CountLines(text_out, 0, "file") + CountLines(text_out, 0, "thread")
  + CountLines(text_out, 0, "meta_info")

\* Every entry with a symbol id >= 0 names a file that some record of the
\* report, before or after it, declares with more symbols than the id.
ReferencesInBounds ==
  \A p \in 1..Len(StreamCallChain) :
    StreamCallChain[p].symbol_id >= 0 =>
      \E i \in StreamFiles :
        /\ StreamBody[i].rec.id = StreamCallChain[p].file_id
        /\ StreamCallChain[p].symbol_id < Len(StreamBody[i].rec.symbol)

\* C9: the bounds are checked only after the zero length was read, against
\* all the files of the report: an out-of-bounds error comes after every
\* record was read and printed, and a report whose samples precede the file
\* records they refer to is accepted when the references are in bounds.
C9_DeferredBounds ==
  /\ dump_result = "out_of_bounds" =>
       /\ EndIndex > 0
       /\ dump_pos = EndIndex
       /\ RecordLines = EndIndex - 1
       /\ CountLines(text_out, 2, "symbol_id") = Len(StreamCallChain)
  /\ (pc = "dump_done" /\ AllDecode /\ NoBadSymbolId /\ FileIdsSequential
      /\ ReferencesInBounds) => dump_result = "ok"

\* An accepted report in which a sample refers to symbol 0 of a file whose
\* record follows it.
C9_Witness ==
  /\ pc = "dump_done"
  /\ dump_result = "ok"
  /\ \E i \in FramesOfType(StreamBody, "sample"), j \in StreamFiles :
       /\ i < j
       /\ \E a \in 1..Len(StreamBody[i].rec.callchain) :
            /\ StreamBody[i].rec.callchain[a].file_id = StreamBody[j].rec.id
            /\ StreamBody[i].rec.callchain[a].symbol_id = 0

(***************************************************************************)
(* Properties of ProcessSampleRecord, over the chains of SpecResolve.      *)
(***************************************************************************)
FrameKind(ip) ==
  CASE ip = InterpreterIp -> "interpreter"
    [] ip = DexIp -> "dex"
    [] OTHER -> "other"

\* The frames of the chain that get resolved: those before the first frame
\* after the head that lies in no map.
ResolvedPrefix(chain) ==
  LET unknown == {i \in 2..Len(chain) : chain[i] = UnmappedIp}
  IN IF unknown = {} THEN chain
     ELSE SubSeq(chain, 1, (CHOOSE i \in unknown : \A j \in unknown : i <= j) - 1)

\* Frame i of fr is an interpreter frame joined to a dex frame by interpreter
\* frames only.
NearDexFrame(fr, i) ==
  /\ FrameKind(fr[i]) = "interpreter"
  /\ \E a \in 1..i, b \in i..Len(fr) :
       /\ \A k \in a..b : FrameKind(fr[k]) = "interpreter"
       /\ \/ a > 1 /\ FrameKind(fr[a - 1]) = "dex"
          \/ b < Len(fr) /\ FrameKind(fr[b + 1]) = "dex"

\* C10: with show-art-frames off the entries are the resolved frames without
\* the interpreter frames of every run of interpreter frames that a dex
\* frame precedes or follows, in their order.
C10_InterpreterCollapsing ==
  (pc = "resolved" /\ ~show_art_frames) =>
    LET fr == ResolvedPrefix(cur_ips)
        kept == SelectSeq([k \in 1..Len(fr) |-> k], LAMBDA k : ~NearDexFrame(fr, k))
    IN cur_entries =
         [n \in 1..Len(kept) |->
            GetCallEntry(kept[n] <= cur_kernel_ip_count, fr[kept[n]], FALSE).entry]

\* [interp, interp, managed, interp, interp, native] gives [managed, native].
C10_Witness ==
  /\ pc = "resolved"
  /\ ~show_art_frames
  /\ cur_ips = <<InterpreterIp, InterpreterIp, DexIp, InterpreterIp, InterpreterIp, NativeIp>>
  /\ Len(cur_entries) = 2
  /\ cur_entries[1].dso = "dex"
  /\ cur_entries[2].dso = "libfoo"


\* The entry of frame k of chain fr, of which the first kic are kernel frames.
FrameEntry(fr, kic, k) == GetCallEntry(k <= kic, fr[k], FALSE).entry

\* C11: with show-art-frames on the entries are exactly the resolved frames,
\* in their order, whatever interpreter and dex frames are among them.
C11_ArtFramesShown ==
  (pc = "resolved" /\ show_art_frames) =>
    LET fr == ResolvedPrefix(cur_ips)
    IN cur_entries = [k \in 1..Len(fr) |-> FrameEntry(fr, cur_kernel_ip_count, k)]

\* The six frames [interp, interp, managed, interp, interp, native] unchanged.
C11_Witness ==
  /\ pc = "resolved"
  /\ show_art_frames
  /\ cur_ips = <<InterpreterIp, InterpreterIp, DexIp, InterpreterIp, InterpreterIp, NativeIp>>
  /\ Len(cur_entries) = 6
  /\ cur_entries[1].dso = "libart"
  /\ cur_entries[3].dso = "dex"
  /\ cur_entries[5].dso = "libart"

\* The user pointers of a chain as read.
UserIps(ips) == SelectSeq(ips, LAMBDA ip : ip # KernelIp)

\* The chain is processed without its kernel pointers.
KernelIpsRemoved ==
  /\ sample_in.kernel_ip_count > 0
  /\ remove_unknown_kernel_symbols
  /\ ~kernel_symbols_available

\* C12: when remove-unknown-kernel-symbols is set and kernel symbols are
\* unavailable, a chain of k > 0 kernel pointers and u user pointers is
\* processed as the u user pointers with kernel count 0, and no frame is
\* resolved in kernel context; otherwise chain and count are as read.  (With
\* show-callchain off the processed chain is then cut to its first pointer.)
C12_KernelFrameRemoval ==
  pc \in {"resolved", "skipped"} =>
    LET ips == IF KernelIpsRemoved THEN UserIps(sample_in.ips) ELSE sample_in.ips
        kic == IF KernelIpsRemoved THEN 0 ELSE sample_in.kernel_ip_count
    IN /\ pc = "skipped" <=> ips = <<>>
       /\ pc = "skipped" => cur_ips = <<>> /\ cur_kernel_ip_count = 0
       /\ (pc = "resolved" /\ show_callchain) =>
            cur_ips = ips /\ cur_kernel_ip_count = kic
       /\ (pc = "resolved" /\ ~show_callchain) =>
            cur_ips = <<ips[1]>> /\ cur_kernel_ip_count = Min(kic, 1)
       /\ (pc = "resolved" /\ KernelIpsRemoved) =>
            /\ \A n \in 1..Len(cur_entries) : cur_entries[n].dso # "kernel"
            /\ \A n \in 1..Len(cur_entries) :
                 \E k \in 1..Len(ips) : cur_entries[n] = GetCallEntry(FALSE, ips[k], FALSE).entry

\* Two kernel pointers and three user pointers give the three user pointers.
C12_Witness ==
  /\ pc = "resolved"
  /\ KernelIpsRemoved
  /\ show_callchain
  /\ sample_in.ips = <<KernelIp, KernelIp, NativeIp, DexIp, NativeIp>>
  /\ cur_ips = <<NativeIp, DexIp, NativeIp>>
  /\ cur_kernel_ip_count = 0
  /\ Len(cur_entries) = 3

\* The entries of the frames of fr with index in K, in their order.
EntriesOf(fr, kic, K) ==
  LET idx == SelectSeq([k \in 1..Len(fr) |-> k], LAMBDA k : k \in K)
  IN [n \in 1..Len(idx) |-> FrameEntry(fr, kic, idx[n])]

\* Every one of entries is the entry of a frame of fr, and they are no more
\* than the frames.
FromFrames(fr, kic, entries) ==
  /\ Len(entries) <= Len(fr)
  /\ \A n \in 1..Len(entries) : \E k \in 1..Len(fr) : entries[n] = FrameEntry(fr, kic, k)

\* C13 as claimed: with show-callchain on, the frame at index 0 is always
\* kept, and the entries come from the frames before the first frame after it
\* whose file is unknown.
C13_FirstFrameAlwaysKept ==
  (pc = "resolved" /\ show_callchain) =>
    LET fr == ResolvedPrefix(cur_ips)
    IN /\ cur_entries # <<>>
       /\ cur_entries[1] = FrameEntry(fr, cur_kernel_ip_count, 1)
       /\ FromFrames(fr, cur_kernel_ip_count, cur_entries)

\* C13: with show-callchain on, the frame at index 0 is resolved and, unless
\* it is an interpreter frame that the collapsing of interpreter frames
\* removes, kept, even when its file is unknown; the entries come from the
\* frames before the first frame after it whose file is unknown, and are all
\* of them when show-art-frames is on.
C13_TruncationAtUnknownFile ==
  (pc = "resolved" /\ show_callchain) =>
    LET fr == ResolvedPrefix(cur_ips)
        all == 1..Len(fr)
    IN /\ cur_entries # <<>>
       /\ (show_art_frames \/ FrameKind(fr[1]) # "interpreter") =>
            cur_entries[1] = FrameEntry(fr, cur_kernel_ip_count, 1)
       /\ show_art_frames => cur_entries = EntriesOf(fr, cur_kernel_ip_count, all)
       /\ FromFrames(fr, cur_kernel_ip_count, cur_entries)

\* An unknown file at index 0 is kept, the one at index 2 ends the chain
\* although a known file follows it.
C13_Witness ==
  /\ pc = "resolved"
  /\ show_callchain
  /\ cur_ips = <<UnmappedIp, NativeIp, UnmappedIp, NativeIp>>
  /\ Len(cur_entries) = 2
  /\ cur_entries[1].dso = "unknown"
  /\ cur_entries[2].dso = "libfoo"


(***************************************************************************)
(* Properties of the report run, over the runs of Spec.                    *)
(***************************************************************************)
\* The step is a call of ProcessRecord; sample_in' is the record.
ProcessRecordStep == pc = "read" /\ nevents' = nevents + 1

\* A sample record whose chain is empty after the kernel pointers are removed.
KernelOnlySample(r) ==
  /\ r.type = "sample"
  /\ r.kernel_ip_count > 0
  /\ \A i \in 1..Len(r.ips) : r.ips[i] = KernelIp
  /\ remove_unknown_kernel_symbols
  /\ ~kernel_symbols_available

\* C14: a sample whose chain is empty after kernel removal writes no record
\* to the report, prints nothing, creates no file id and no symbol id, is not
\* counted, and ReadDataSection goes on with the next record.
C14_EmptyChainSample ==
  [][(ProcessRecordStep /\ KernelOnlySample(sample_in')) =>
       /\ report' = report
       /\ text_out' = text_out
       /\ dso_dump_id' = dso_dump_id
       /\ symbol_dump_id' = symbol_dump_id
       /\ sample_count' = sample_count
       /\ threads' = threads
       /\ result' = result
       /\ pc' = "read"]_vars

\* A protobuf run of two kernel-only samples that ended well: its report has
\* no sample and no file.
C14_Witness ==
  /\ pc = "done"
  /\ result = "true"
  /\ use_protobuf
  /\ nevents = 2
  /\ KernelOnlySample(sample_in)
  /\ lost_count = 0
  /\ threads = {}
  /\ sample_count = 0
  /\ FramesOfType(report.frames, "sample") = {}
  /\ FramesOfType(report.frames, "file") = {}
  /\ Last(report.frames) = EndFrame


(***************************************************************************)
(* Properties of repeated dumps, over SpecRedump.                          *)
(***************************************************************************)
\* The two halves of what two accepted dumps of the same file printed.
FirstDumpOut == SubSeq(text_out, 1, Len(text_out) \div 2)
SecondDumpOut == SubSeq(text_out, Len(text_out) \div 2 + 1, Len(text_out))

\* C15 as claimed: two dumps of the same valid file by DumpProtobufReport
\* print the same lines, the number in each "sample N:" line included.
C15_IdempotentRedump ==
  (pc = "dump_done" /\ dump_runs = 2 /\ dump_result = "ok") =>
    /\ Len(text_out) % 2 = 0
    /\ SecondDumpOut = FirstDumpOut

\* A line without the number of its sample.
Unnumbered(line) ==
  IF line[1] = 0 /\ line[2] = "sample" THEN <<0, "sample", 0>> ELSE line

\* C15, the numbers apart: the two dumps print the same lines but for the
\* numbers of the samples, which go on counting where the first dump ended.
C15_RedumpUpToSampleNumbers ==
  (pc = "dump_done" /\ dump_runs = 2 /\ dump_result = "ok") =>
    /\ Len(text_out) % 2 = 0
    /\ [i \in 1..Len(SecondDumpOut) |-> Unnumbered(SecondDumpOut[i])]
         = [i \in 1..Len(FirstDumpOut) |-> Unnumbered(FirstDumpOut[i])]
    /\ LineValues(FirstDumpOut, 0, "sample") = 1..CountLines(FirstDumpOut, 0, "sample")
    /\ LineValues(SecondDumpOut, 0, "sample")
         = (CountLines(FirstDumpOut, 0, "sample") + 1)..(2 * CountLines(FirstDumpOut, 0, "sample"))

\* A file with one sample was dumped twice: "sample 1:", then "sample 2:".
C15_Witness ==
  /\ pc = "dump_done"
  /\ dump_runs = 2
  /\ dump_result = "ok"
  /\ LineValues(FirstDumpOut, 0, "sample") = {1}
  /\ LineValues(SecondDumpOut, 0, "sample") = {2}


(***************************************************************************)
(* Further properties of DumpProtobufReport, over SpecDump.                *)
(***************************************************************************)
\* C16: the dumper stops reading at the first zero length, wherever it is:
\* no frame after it is read or printed or added to files, and the dump
\* succeeds unless the check of the bounds fails.  A report without zero
\* length is refused.
C16_EndOfStream ==
  /\ EndIndex > 0 => dump_pos <= EndIndex
  /\ (EndIndex > 0 /\ dump_pos = EndIndex) =>
       /\ pc \in {"dump_check", "dump_done"}
       /\ RecordLines = EndIndex - 1
       /\ CountLines(text_out, 2, "symbol_id") = Len(StreamCallChain)
       /\ Len(files) = Cardinality(StreamFiles)
       /\ pc = "dump_done" =>
            /\ dump_result \in {"ok", "out_of_bounds"}
            /\ dump_result = "ok" <=> ReferencesInBounds
  /\ (pc = "dump_done" /\ EndIndex = 0) => dump_result \notin {"ok", "none"}
  /\ dump_result = "read_failed" => EndIndex = 0 /\ dump_pos = Len(report.frames)
  /\ (pc = "dump_done" /\ dump_result = "ok") => EndIndex > 0 /\ dump_pos = EndIndex

\* An accepted report with a frame that cannot be parsed after its zero length.
C16_Witness ==
  /\ pc = "dump_done"
  /\ dump_result = "ok"
  /\ EndIndex = 2
  /\ Len(report.frames) = 3
  /\ report.frames[3].rec.type = "malformed"

\* The largest of 64 MiB and the lengths read so far.
LargestLengthRead ==
  LET S == {InitialMaxMessageSize} \cup {Consumed[i].size : i \in 1..Len(Consumed)}
  IN CHOOSE m \in S : \A x \in S : x <= m

\* C17: max_message_size starts at 64 MiB, is at every point the largest of
\* 64 MiB and the lengths read so far, never decreases, and changes only to
\* a length just read that exceeds it, so that every record is parsed under
\* a limit of at least its own length.
C17_AdaptiveSizeCap ==
  /\ [](max_message_size = LargestLengthRead)
  /\ [][/\ max_message_size' >= max_message_size
        /\ dump_pos' = dump_pos => max_message_size' = max_message_size
        /\ dump_pos' = dump_pos + 1 =>
             LET size == report.frames[dump_pos'].size
             IN /\ max_message_size' = IF size > max_message_size THEN size
                                       ELSE max_message_size
                /\ max_message_size' >= size]_vars

\* The limit was raised above 64 MiB and a later, smaller length above
\* 64 MiB left it alone.
C17_Witness ==
  /\ dump_pos >= 2
  /\ Consumed[dump_pos].size > InitialMaxMessageSize
  /\ Consumed[dump_pos].size < max_message_size
  /\ max_message_size = Consumed[1].size


(***************************************************************************)
(* Further properties of the report run, over Spec.                        *)
(***************************************************************************)
\* C18: a record whose write failed is the last thing in the report, the run
\* has then returned false, and the report has no zero length; a report with
\* a zero length has it at its end, after records that were all written
\* whole, and a run that returned false wrote none.  Nothing is written once
\* the run has returned.
C18_FailureMidStream ==
  /\ [](LET fr == report.frames
            partial == FramesOfType(fr, "partial")
            ends == FramesOfType(fr, "end")
        IN /\ partial # {} => /\ partial = {Len(fr)}
                              /\ ends = {}
                              /\ pc = "done"
                              /\ result = "false"
           /\ ends # {} => ends = {Len(fr)} /\ partial = {} /\ result = "true"
           /\ result = "false" => ends = {} /\ pc = "done")
  /\ [][result # "none" => report' = report /\ result' = result]_vars

\* The write of the second file record failed: the report ends there.
C18_Witness ==
  /\ pc = "done"
  /\ result = "false"
  /\ use_protobuf
  /\ report.frames # <<>>
  /\ Last(report.frames).rec.type = "partial"
  /\ Cardinality(FramesOfType(report.frames, "file")) = 1
  /\ Cardinality({d \in Dsos : dso_dump_id[d] # NoId}) = 2
  /\ FramesOfType(report.frames, "thread") = {}


\* The lost field of the record a ProcessRecord step was called with.
LostOf(r) == IF r.type = "lost" THEN r.lost ELSE 0

\* C19: a run that returned true has emitted the lost summary exactly once,
\* after every sample, with the counters of the run; lost_count_ grows by the
\* lost field of every lost record processed and changes at no other step,
\* and neither counter ever decreases.
C19_LostSummary ==
  /\ [](result = "true" =>
          IF use_protobuf
          THEN LET fr == report.frames
                   lost == FramesOfType(fr, "lost")
               IN /\ Cardinality(lost) = 1
                  /\ \A l \in lost :
                       /\ \A i \in FramesOfType(fr, "sample") : i < l
                       /\ fr[l].rec.sample_count = sample_count
                       /\ fr[l].rec.lost_count = lost_count
          ELSE LET lost == LinesWith(text_out, 0, "lost_situation")
               IN /\ Cardinality(lost) = 1
                  /\ \A l \in lost :
                       /\ \A i \in LinesWith(text_out, 0, "sample") : i < l
                       /\ Len(text_out) = l + 2
                       /\ text_out[l + 1] = <<1, "sample_count", sample_count>>
                       /\ text_out[l + 2] = <<1, "lost_count", lost_count>>)
  /\ [][/\ sample_count' >= sample_count
        /\ lost_count' >= lost_count
        /\ ProcessRecordStep => lost_count' = lost_count + LostOf(sample_in')
        /\ ~ProcessRecordStep => lost_count' = lost_count]_vars

\* A text run of a sample and then a lost record of 2.
C19_Witness ==
  /\ result = "true"
  /\ ~use_protobuf
  /\ nevents = 2
  /\ sample_count = 1
  /\ lost_count = 2
  /\ CountLines(text_out, 0, "lost_situation") = 1
  /\ sample_in.type = "lost"


\* The symbols of dso that have a dump id.
DumpedSymbols(dso) == {y \in Symbols : y.dso = dso /\ symbol_dump_id[y] # NoId}

\* The symbols other than the unknown symbol that written entries of dso name.
KnownSymbolsWritten(dso) ==
  {emitted[p].symbol : p \in {q \in 1..Len(emitted) :
                                 emitted[q].dso = dso /\ emitted[q].symbol # UnknownSymbol}}

\* C20: an entry is written with symbol id -1 exactly when its symbol is the
\* unknown symbol; such an entry carries the dump id of its file, and the
\* symbols that have a dump id, and those a file record lists, are the
\* symbols other than the unknown one that entries of the file name.
C20_UnresolvedSymbols ==
  LET fr == report.frames
      cc == FlatCallChain(fr)
  IN /\ Len(cc) = Len(emitted)
     /\ \A p \in 1..Len(cc) :
          /\ cc[p].symbol_id = -1 <=> emitted[p].symbol = UnknownSymbol
          /\ emitted[p].symbol = UnknownSymbol =>
               /\ cc[p].file_id >= 0
               /\ cc[p].file_id = dso_dump_id[emitted[p].dso]
     /\ FramesOfType(fr, "partial") = {} =>
          \A d \in Dsos : DumpedSymbols(d) = KnownSymbolsWritten(d)
     /\ (use_protobuf /\ result = "true") =>
          \A d \in Dsos :
            dso_dump_id[d] # NoId =>
              \E i \in FramesOfType(fr, "file") :
                /\ fr[i].rec.id = dso_dump_id[d]
                /\ Len(fr[i].rec.symbol) = Cardinality(KnownSymbolsWritten(d))

\* libfoo.so has entries with the unknown symbol and with one known symbol,
\* and its file record lists one symbol; the unknown dso has a file record
\* without symbols.
C20_Witness ==
  /\ use_protobuf
  /\ result = "true"
  /\ \E p, q \in 1..Len(emitted) :
       /\ emitted[p].dso = "libfoo" /\ emitted[p].symbol = UnknownSymbol
       /\ emitted[q].dso = "unknown" /\ emitted[q].symbol = UnknownSymbol
  /\ Cardinality(KnownSymbolsWritten("libfoo")) = 1
  /\ \E i, j \in FramesOfType(report.frames, "file") :
       /\ report.frames[i].rec.path = DsoPath("libfoo")
       /\ Len(report.frames[i].rec.symbol) = 1
       /\ report.frames[j].rec.path = DsoPath("unknown")
       /\ report.frames[j].rec.symbol = <<>>


(***************************************************************************)
(* More properties of ProcessSampleRecord, over the chains of SpecResolve. *)
(***************************************************************************)
\* The chain after the removal of kernel frames, from the record as read.
ChainAfterRemoval ==
  IF KernelIpsRemoved THEN UserIps(sample_in.ips) ELSE sample_in.ips

\* C21: whenever the chain is not empty after the removal of kernel frames,
\* whatever show-callchain and show-art-frames are and whatever unknown-file,
\* interpreter and dex frames it holds, the sample is resolved and the list
\* of entries handed to the emitter is not empty, so that entries[0] exists
\* for CHECK(!entries.empty()); the list is empty only for a skipped sample.
C21_NonEmptyResult ==
  pc \in {"resolved", "skipped"} =>
    /\ ChainAfterRemoval # <<>> => pc = "resolved" /\ cur_entries # <<>>
    /\ ChainAfterRemoval = <<>> => pc = "skipped" /\ cur_entries = <<>>

\* Interpreter frames around one dex frame and then an unknown file, with
\* show-art-frames off: every frame but the dex frame is dropped.
C21_Witness ==
  /\ pc = "resolved"
  /\ ~show_art_frames
  /\ show_callchain
  /\ cur_ips = <<InterpreterIp, InterpreterIp, DexIp, InterpreterIp, UnmappedIp, NativeIp>>
  /\ Len(cur_entries) = 1
  /\ cur_entries[1].dso = "dex"

\* The first pointer of the processed chain is resolved in kernel context.
FirstInKernel == sample_in.kernel_ip_count > 0 /\ ~KernelIpsRemoved

\* C22: with show-callchain off, a chain that is not empty after the removal
\* of kernel frames is cut to its first pointer, the kernel count becomes
\* min(count, 1), and the entries are the one entry of that pointer, resolved
\* in kernel context iff the chain as read began with a kernel pointer that
\* was not removed; both emitters write one call entry for it.
C22_CallChainHidden ==
  (pc = "resolved" /\ ~show_callchain) =>
    LET first == ChainAfterRemoval[1]
        count == IF KernelIpsRemoved THEN 0 ELSE sample_in.kernel_ip_count
        written == FillCallChain(cur_entries, 1, <<>>, NoDumpIds.dso_ids,
                                 NoDumpIds.symbol_ids).callchain
        printed == PrintSampleRecord(sample_in.tid, 1, cur_entries)
    IN /\ cur_ips = <<first>>
       /\ cur_kernel_ip_count = Min(count, 1)
       /\ cur_kernel_ip_count = (IF FirstInKernel THEN 1 ELSE 0)
       /\ cur_entries = <<GetCallEntry(FirstInKernel, first, FALSE).entry>>
       /\ Len(written) = 1
       /\ CountLines(printed, 1, "vaddr_in_file") = 1
       /\ CountLines(printed, 1, "callchain") = 0
       /\ CountLines(printed, 2, "vaddr_in_file") = 0

\* Two kernel pointers that stay and three user pointers: the one entry is
\* the kernel symbol of the first pointer.
C22_Witness ==
  /\ pc = "resolved"
  /\ ~show_callchain
  /\ ~KernelIpsRemoved
  /\ sample_in.ips = <<KernelIp, KernelIp, NativeIp, UnmappedIp, DexIp>>
  /\ cur_ips = <<KernelIp>>
  /\ cur_kernel_ip_count = 1
  /\ Len(cur_entries) = 1
  /\ cur_entries[1].dso = "kernel"


(***************************************************************************)
(* More properties of the report run, over the runs of Spec.               *)
(***************************************************************************)
\* The sample records in the output of the run so far.
SamplesWritten ==
  IF use_protobuf THEN Cardinality(FramesOfType(report.frames, "sample"))
  ELSE CountLines(text_out, 0, "sample")

\* The chain of sample record r is not empty after kernel removal.
CountedSample(r) ==
  /\ r.type = "sample"
  /\ RemoveKernelIps(r.ips, r.kernel_ip_count, remove_unknown_kernel_symbols,
                     kernel_symbols_available).ips # <<>>

\* C23 as claimed: at every point of a run the sample counter is the number
\* of sample records in the output.
C23_CounterAlwaysAgrees == sample_count = SamplesWritten

\* C23: as long as the run has not failed the sample counter is the number of
\* sample records in the output, and in a run that returned true the
\* sample_count of the lost summary is the number of sample records before
\* it; a sample skipped for its empty chain changes neither, a counted sample
\* adds one to both, unless its write fails: then the counter is one ahead
\* of the output and the run returns false.
C23_SampleCounter ==
  /\ [](result # "false" => sample_count = SamplesWritten)
  /\ [](result = "true" =>
          IF use_protobuf
          THEN \A l \in FramesOfType(report.frames, "lost") :
                 report.frames[l].rec.sample_count
                   = Cardinality({i \in FramesOfType(report.frames, "sample") : i < l})
          ELSE \A l \in LinesWith(text_out, 0, "lost_situation") :
                 text_out[l + 1]
                   = <<1, "sample_count",
                       Cardinality({i \in LinesWith(text_out, 0, "sample") : i < l})>>)
  /\ [][(ProcessRecordStep /\ sample_in'.type = "sample") =>
          IF CountedSample(sample_in')
          THEN /\ sample_count' = sample_count + 1
               /\ \/ SamplesWritten' = SamplesWritten + 1 /\ result' = result
                  \/ /\ SamplesWritten' = SamplesWritten
                     /\ use_protobuf
                     /\ result' = "false"
                     /\ pc' = "done"
          ELSE sample_count' = sample_count /\ SamplesWritten' = SamplesWritten]_vars

\* A protobuf run of a counted sample and then a skipped one that returned
\* true: its lost summary says 1.
C23_Witness ==
  /\ result = "true"
  /\ use_protobuf
  /\ nevents = 2
  /\ KernelOnlySample(sample_in)
  /\ sample_count = 1
  /\ \E l \in FramesOfType(report.frames, "lost") : report.frames[l].rec.sample_count = 1
  /\ Cardinality(FramesOfType(report.frames, "sample")) = 1

\* The entry names __libc_init or __start_thread of libc.so.
IsEndMarker(e) ==
  /\ Last(DsoPath(e.dso)) = "libc.so"
  /\ e.symbol.name \in {"__libc_init", "__start_thread"}

\* The entries up to and including the first end marker, all of them when
\* there is none.
MarkerPrefix(entries) ==
  LET m == {i \in 1..Len(entries) : IsEndMarker(entries[i])}
  IN IF m = {} THEN entries
     ELSE SubSeq(entries, 1, CHOOSE i \in m : \A j \in m : i <= j)

\* A step that processes a counted sample in protobuf mode writes the marker
\* prefix of the resolved entries, and gives new dump ids to files and
\* symbols of that prefix only.
WritesMarkerPrefix ==
  (ProcessRecordStep /\ use_protobuf /\ CountedSample(sample_in')) =>
    LET chain == RemoveKernelIps(sample_in'.ips, sample_in'.kernel_ip_count,
                                 remove_unknown_kernel_symbols, kernel_symbols_available)
        entries == BuildEntries(chain, show_callchain, show_art_frames)
        written == MarkerPrefix(entries)
    IN /\ \A d \in Dsos :
            dso_dump_id'[d] # dso_dump_id[d] =>
              \E i \in 1..Len(written) : written[i].dso = d
       /\ \A y \in Symbols :
            symbol_dump_id'[y] # symbol_dump_id[y] =>
              \E i \in 1..Len(written) : written[i].symbol = y
       /\ result' = result =>
            /\ emitted' = emitted \o written
            /\ Len(report'.frames) = Len(report.frames) + 1
            /\ LET cc == Last(report'.frames).rec.callchain
               IN /\ Len(cc) = Len(written)
                  /\ \A i \in 1..Len(cc) :
                       /\ cc[i].vaddr_in_file = written[i].vaddr_in_file
                       /\ cc[i].file_id = dso_dump_id'[written[i].dso]
       /\ result' # result => emitted' = emitted

\* Every dump id that was given out belongs to a file or symbol of a written
\* call-chain entry.
AllocatedIdsReferenced ==
  /\ \A d \in Dsos : dso_dump_id[d] # NoId => d \in EmittedDsos
  /\ \A d \in Dsos : DumpedSymbols(d) \subseteq EmittedSymbols(d)

\* C24 as claimed: the call chain written is the prefix up to and including
\* the first end marker, and every file id and symbol id ever allocated is
\* referenced by a written entry.
C24_IdsAlwaysReferenced ==
  /\ [][WritesMarkerPrefix]_vars
  /\ []AllocatedIdsReferenced

\* C24: the call chain written for a sample is the prefix of the resolved
\* entries up to and including the first entry of libc.so with symbol
\* __libc_init or __start_thread, the whole list when there is none; the
\* entries after it are not written and get no file id or symbol id; as long
\* as no write has failed every id given out is referenced by a written
\* entry, while a sample whose write fails leaves its new ids unreferenced.
C24_CallChainEndMarker ==
  /\ [][WritesMarkerPrefix]_vars
  /\ [](FramesOfType(report.frames, "partial") = {} => AllocatedIdsReferenced)

\* A run of the one sample [__libc_init, f]: the entry of libc.so is written
\* with id 0, and libfoo.so and f get no id.
C24_Witness ==
  /\ result = "true"
  /\ use_protobuf
  /\ show_callchain
  /\ nevents = 1
  /\ sample_in.ips = <<48, 16>>
  /\ Len(emitted) = 1
  /\ dso_dump_id["libc"] = 0
  /\ dso_dump_id["libfoo"] = NoId
  /\ \A y \in Symbols : y.dso = "libfoo" => symbol_dump_id[y] = NoId
====
